---- MODULE Spec2Model ----
(***************************************************************************)
(* Model of the token-data clients of src/birdeye.py and                   *)
(* src/dexscreener.py: BirdEyeClient.fetch_prices / fetch_token_overview,  *)
(* DexScreenerClient.fetch_prices_dex / fetch_token_overview and the pure  *)
(* helper DexScreenerClient.find_largest_pool_with_sol.                    *)
(*                                                                         *)
(* One behaviour is one call on a fresh client.  A call that talks to the  *)
(* network is cut at its requests: each request, the provider's response   *)
(* and the code that handles that response form one step.  netlog records  *)
(* the addresses requested, resplog the responses received.                *)
(***************************************************************************)
EXTENDS Integers, Sequences, FiniteSets, TLC

\* ------------------------------------------------------------------ bounds
\* Longest address list handed to fetch_prices / fetch_prices_dex.
MaxLen ==
    2

\* Longest token_pairs list handed to find_largest_pool_with_sol.
MaxPairs ==
    3

\* ----------------------------------------------------------------- domains
\* Two well-formed Solana addresses.
ValidAddrs ==
    {"A1", "A2"}

\* The strings a caller may pass as an address: well-formed ones, the empty
\* string and a malformed one.
AddrDomain ==
    ValidAddrs \cup {"", "not-an-address"}

\* utils.helpers.is_solana_address: TRUE exactly for well-formed addresses;
\* the empty string is never one.
is_solana_address(token_address) ==
    token_address \in ValidAddrs

\* vars.constants.SOL_MINT, the wrapped-SOL mint address.
SOL_MINT ==
    "So11111111111111111111111111111111111111112"

\* A quote-token address other than SOL_MINT.
OTHER_MINT ==
    "OTHER"

\* An optional field of a dict (a JSON object) is a sequence of length at most
\* one: Absent when the dict does not hold the key, <<v>> when it holds v.
Absent ==
    <<>>

\* Python's None, the default of dict.get(key).
None ==
    "None"

\* resp.status_code == 200
HTTP_OK ==
    200

\* HTTP statuses a provider answers with.
Statuses ==
    {HTTP_OK, 404, 500}

\* A provider's answer to one request: the status and, of the JSON body, the
\* price field and the liquidity datum ("liquidity" for BirdEye,
\* "liquidity"."usd" for DexScreener), each optional.  Bodies are JSON
\* objects whose fields, when present, are numbers.
Responses ==
    [status : Statuses, price : {Absent, <<7>>}, liquidity : {Absent, <<9>>}]

\* Only a 200 answer's body is ever read; one body stands for the others.
ResponseDomain ==
    {r \in Responses : r.status # HTTP_OK => (r.price = Absent /\ r.liquidity = Absent)}

SeqsUpTo(S, n) ==
    UNION {[1..k -> S] : k \in 0..n}

Range(s) ==
    {s[k] : k \in 1..Len(s)}

\* The token_addresses lists a caller may pass.
AddrLists ==
    SeqsUpTo(AddrDomain, MaxLen)

\* ------------------------------------------------------------------ errors
\* A raised exception: its Python type, its message (without the
\* interpolated part), the address and the HTTP status it names.
Error(type, msg, addr, status) ==
    [type |-> type, msg |-> msg, addr |-> addr, status |-> status]

NoErr ==
    Error("none", "", "", 0)

\* ---------------------------------------------------------- DexScreenerClient
\* _validate_token_address: the exception it raises, NoErr when it returns.
_validate_token_address(token_address) ==
    IF token_address = ""
    THEN Error("NoPositionsError", "Token address cannot be empty", token_address, 0)
    ELSE IF ~is_solana_address(token_address)
         THEN Error("InvalidSolanaAddress", "Invalid Solana address", token_address, 0)
         ELSE NoErr

\* The loop of _validate_token_addresses over token_addresses[k..]: the first
\* exception raised, in list order.
RECURSIVE validate_from(_, _)
validate_from(token_addresses, k) ==
    IF k > Len(token_addresses)
    THEN NoErr
    ELSE IF _validate_token_address(token_addresses[k]) # NoErr
         THEN _validate_token_address(token_addresses[k])
         ELSE validate_from(token_addresses, k + 1)

\* Variant of _validate_token_addresses without the emptiness test.
validate_token_addresses_no_empty_test(token_addresses) ==
    validate_from(token_addresses, 1)

_validate_token_addresses(token_addresses) ==
    IF token_addresses = <<>>
    THEN Error("NoPositionsError", "No token addresses provided", "", 0)
    ELSE validate_from(token_addresses, 1)

\* Variant of _validate_response that accepts every status.
validate_response_accept_all(status) ==
    NoErr

_validate_response(status) ==
    IF status # HTTP_OK
    THEN Error("InvalidTokens", "Invalid response from API", "", status)
    ELSE NoErr

\* ---------------------------------------------------------------- BirdEyeClient
\* response.raise_for_status(): HTTPError for a 4xx or 5xx status.
raise_for_status(status) ==
    IF 400 <= status /\ status < 600
    THEN Error("HTTPError", "", "", status)
    ELSE NoErr

\* PublicKey(address) in birdeye.py: the module imports requests, Decimal and
\* NamedTuple only, so the name is unbound and evaluating it raises NameError.
PublicKey(address) ==
    Error("NameError", "name 'PublicKey' is not defined", "", 0)

\* ------------------------------------------------------------------ decimals
\* Decimal(x) of a Python int is exact.
Decimal(x) ==
    x

\* dict.get(key, default)
Get(field, default) ==
    IF field = Absent THEN default ELSE field[1]

\* PriceInfo(price=Decimal(data.get("price", 0)),
\*           liquidity=Decimal(data.get("liquidity", {}).get("usd", 0)))
\* and the dict of the same two fields that BirdEyeClient builds.
PriceInfo(data) ==
    [price |-> Decimal(Get(data.price, 0)), liquidity |-> Decimal(Get(data.liquidity, 0))]

\* _call_api(token_address) when the provider answers resp: the exception it
\* raises (NoErr when it returns resp's JSON) and whether requests.get ran.
_call_api(token_address, resp) ==
    IF _validate_token_address(token_address) # NoErr
    THEN [err |-> _validate_token_address(token_address), requested |-> FALSE]
    ELSE [err |-> _validate_response(resp.status), requested |-> TRUE]

\* -------------------------------------------------------------------- floats
\* A liquidity.usd value hi * 2^53 + lo, an exact integer: hi is 0 or 1, and
\* lo is small (lo >= 0 when hi = 1).
Num(hi, lo) ==
    [hi |-> hi, lo |-> lo]

\* float(x) of an exact integer: IEEE-754 binary64, round half to even.  Below
\* 2^53 every integer is a double; from 2^53 to 2^54 the doubles are the even
\* integers, and an odd one is the midpoint of its two neighbours, of which
\* the multiple of 4 has the even significand.
float(x) ==
    IF x.hi = 0 \/ x.lo % 2 = 0
    THEN x
    ELSE IF (x.lo + 1) % 4 = 0
         THEN Num(x.hi, x.lo + 1)
         ELSE Num(x.hi, x.lo - 1)

\* a > b
Greater(a, b) ==
    a.hi > b.hi \/ (a.hi = b.hi /\ a.lo > b.lo)

\* ------------------------------------------------- find_largest_pool_with_sol
\* A trading pair: baseToken.address, quoteToken.address and liquidity.usd,
\* each optional.
Pair(base, quote, liq) ==
    [base |-> base, quote |-> quote, liq |-> liq]

\* The state of find_largest_pool_with_sol after its loop has handled the
\* first k entries: the exception raised (NoErr when none), max_entry (the
\* position of the entry in token_pairs, 0 for the initial {}) and
\* max_liquidity_usd.
RECURSIVE pool_scan(_, _, _)
pool_scan(pairs, addr, k) ==
    IF k = 0
    THEN [err |-> NoErr, max_entry |-> 0, max_liquidity_usd |-> Num(0, -1)]
    ELSE LET s == pool_scan(pairs, addr, k - 1)
             entry == pairs[k]
         IN  IF s.err # NoErr
             THEN s
             ELSE IF Get(entry.base, None) # addr
             THEN s
             ELSE IF entry.quote = Absent
             THEN [s EXCEPT !.err = Error("KeyError", "quoteToken", "", 0)]
             ELSE IF entry.quote[1] # SOL_MINT
             THEN s
             ELSE IF Greater(float(Get(entry.liq, Num(0, 0))), s.max_liquidity_usd)
             THEN [s EXCEPT !.max_entry = k,
                            !.max_liquidity_usd = float(Get(entry.liq, Num(0, 0)))]
             ELSE s

find_largest_pool_with_sol(pairs, addr) ==
    pool_scan(pairs, addr, Len(pairs))

\* liquidity.usd values of the input: missing, 0, 5, a negative amount, and
\* two integers above 2^53.
LiqDomain ==
    {Absent, <<Num(0, 0)>>, <<Num(0, 5)>>, <<Num(0, -5)>>, <<Num(1, 3)>>, <<Num(1, 4)>>}

\* Trading pairs of the input: SOL-quoted pairs of A1 with every liquidity,
\* and pairs with another base token, another quote token or missing fields.
PairDomain ==
    {Pair(<<"A1">>, <<SOL_MINT>>, l) : l \in LiqDomain}
    \cup {Pair(<<"A1">>, <<OTHER_MINT>>, <<Num(1, 4)>>),
          Pair(<<"A2">>, <<SOL_MINT>>, <<Num(1, 4)>>),
          Pair(Absent, Absent, Absent),
          Pair(<<"A1">>, Absent, <<Num(0, 5)>>)}

\* The token_pairs lists a caller may pass.
PairLists ==
    SeqsUpTo(PairDomain, MaxPairs)

\* ---------------------------------------------------------------------- state
VARIABLES
    provider,         \* "BirdEye" or "DexScreener": the client called
    op,               \* the method called
    pc,               \* "idle", "loop", "request", "returned" or "raised"
    token_addresses,  \* argument of fetch_prices / fetch_prices_dex
    address,          \* argument of fetch_token_overview / find_largest_pool_with_sol
    token_pairs,      \* argument of find_largest_pool_with_sol
    i,                \* position of the for loop in token_addresses
    prices,           \* the dict built by fetch_prices / fetch_prices_dex
    netlog,           \* addresses requested from the provider, in order
    resplog,          \* responses received, in order
    swallowed,        \* types of the exceptions the except clause of fetch_prices_dex dropped
    overview,         \* <<data>> once fetch_token_overview has returned data
    max_entry,        \* position of the entry find_largest_pool_with_sol returned, 0 for {}
    err               \* the exception the call raised, NoErr when none

vars ==
    <<provider, op, pc, token_addresses, address, token_pairs, i, prices, netlog,
      resplog, swallowed, overview, max_entry, err>>

\* prices = {}
EmptyDict ==
    [a \in {} |-> PriceInfo([price |-> Absent, liquidity |-> Absent])]

\* prices[key] = value
SetItem(dict, key, value) ==
    [a \in DOMAIN dict \cup {key} |-> IF a = key THEN value ELSE dict[a]]

Init ==
    /\ provider = "none"
    /\ op = "none"
    /\ pc = "idle"
    /\ token_addresses = <<>>
    /\ address = ""
    /\ token_pairs = <<>>
    /\ i = 1
    /\ prices = EmptyDict
    /\ netlog = <<>>
    /\ resplog = <<>>
    /\ swallowed = <<>>
    /\ overview = <<>>
    /\ max_entry = 0
    /\ err = NoErr

\* A call begins: the client class and the method.
Enter(p, o) ==
    /\ provider' = p
    /\ op' = o

\* raise e
Raise(e) ==
    /\ pc' = "raised"
    /\ err' = e

\* ------------------------------------------------------ BirdEyeClient.fetch_prices
BirdEyeFetchPrices ==
    /\ pc = "idle"
    /\ \E addrs \in AddrLists :
        /\ Enter("BirdEye", "fetch_prices")
        /\ token_addresses' = addrs
        /\ IF addrs = <<>>
           THEN Raise(Error("ValueError", "No tokens provided", "", 0))
           ELSE pc' = "loop" /\ err' = err
        /\ UNCHANGED <<address, token_pairs, i, prices, netlog, resplog, swallowed,
                       overview, max_entry>>

\* One iteration of the for loop: the request, its response, the handling.
BirdEyeFetchPricesStep(resp) ==
    /\ provider = "BirdEye" /\ op = "fetch_prices" /\ pc = "loop"
    /\ i <= Len(token_addresses)
    /\ netlog' = Append(netlog, token_addresses[i])
    /\ resplog' = Append(resplog, resp)
    /\ IF raise_for_status(resp.status) # NoErr
       THEN /\ Raise(Error("Exception", "Failed to fetch price for token",
                           token_addresses[i], resp.status))
            /\ UNCHANGED <<i, prices>>
       ELSE /\ prices' = SetItem(prices, token_addresses[i], PriceInfo(resp))
            /\ i' = i + 1
            /\ UNCHANGED <<pc, err>>
    /\ UNCHANGED <<provider, op, token_addresses, address, token_pairs, swallowed,
                   overview, max_entry>>

\* return prices
BirdEyeFetchPricesReturn ==
    /\ provider = "BirdEye" /\ op = "fetch_prices" /\ pc = "loop"
    /\ i > Len(token_addresses)
    /\ pc' = "returned"
    /\ UNCHANGED <<provider, op, token_addresses, address, token_pairs, i, prices,
                   netlog, resplog, swallowed, overview, max_entry, err>>

\* ------------------------------------------- DexScreenerClient.fetch_prices_dex
DexFetchPrices ==
    /\ pc = "idle"
    /\ \E addrs \in AddrLists :
        /\ Enter("DexScreener", "fetch_prices")
        /\ token_addresses' = addrs
        /\ IF _validate_token_addresses(addrs) # NoErr
           THEN Raise(_validate_token_addresses(addrs))
           ELSE pc' = "loop" /\ err' = err
        /\ UNCHANGED <<address, token_pairs, i, prices, netlog, resplog, swallowed,
                       overview, max_entry>>

\* One iteration of the for loop: _call_api and the handling of what it
\* returns or raises; the except clause drops the exception and continues.
DexFetchPricesStep(resp) ==
    /\ provider = "DexScreener" /\ op = "fetch_prices" /\ pc = "loop"
    /\ i <= Len(token_addresses)
    /\ LET call == _call_api(token_addresses[i], resp)
       IN  /\ IF call.requested
              THEN /\ netlog' = Append(netlog, token_addresses[i])
                   /\ resplog' = Append(resplog, resp)
              ELSE UNCHANGED <<netlog, resplog>>
           /\ IF call.err # NoErr
              THEN /\ swallowed' = Append(swallowed, call.err.type)
                   /\ UNCHANGED prices
              ELSE /\ prices' = SetItem(prices, token_addresses[i], PriceInfo(resp))
                   /\ UNCHANGED swallowed
    /\ i' = i + 1
    /\ UNCHANGED <<provider, op, pc, token_addresses, address, token_pairs,
                   overview, max_entry, err>>

\* return prices
DexFetchPricesReturn ==
    /\ provider = "DexScreener" /\ op = "fetch_prices" /\ pc = "loop"
    /\ i > Len(token_addresses)
    /\ pc' = "returned"
    /\ UNCHANGED <<provider, op, token_addresses, address, token_pairs, i, prices,
                   netlog, resplog, swallowed, overview, max_entry, err>>

\* --------------------------------------------------------- fetch_token_overview
\* BirdEyeClient.fetch_token_overview up to its request: the try block around
\* PublicKey(address) turns a ValueError into ValueError("Invalid Solana
\* address") and lets every other exception through.
BirdEyeFetchTokenOverview ==
    /\ pc = "idle"
    /\ \E addr \in AddrDomain :
        /\ Enter("BirdEye", "fetch_token_overview")
        /\ address' = addr
        /\ IF PublicKey(addr).type = "ValueError"
           THEN Raise(Error("ValueError", "Invalid Solana address", addr, 0))
           ELSE IF PublicKey(addr) # NoErr
                THEN Raise(PublicKey(addr))
                ELSE pc' = "request" /\ err' = err
        /\ UNCHANGED <<token_addresses, token_pairs, i, prices, netlog, resplog,
                       swallowed, overview, max_entry>>

\* DexScreenerClient.fetch_token_overview up to _call_api.
DexFetchTokenOverview ==
    /\ pc = "idle"
    /\ \E addr \in AddrDomain :
        /\ Enter("DexScreener", "fetch_token_overview")
        /\ address' = addr
        /\ IF _validate_token_address(addr) # NoErr
           THEN Raise(_validate_token_address(addr))
           ELSE pc' = "request" /\ err' = err
        /\ UNCHANGED <<token_addresses, token_pairs, i, prices, netlog, resplog,
                       swallowed, overview, max_entry>>

\* The overview request, its response and the handling: for BirdEye
\* raise_for_status and the except clause, for DexScreener _call_api, whose
\* exceptions fetch_token_overview raises again.
FetchTokenOverviewRespond(resp) ==
    /\ op = "fetch_token_overview" /\ pc = "request"
    /\ IF provider = "BirdEye"
       THEN /\ netlog' = Append(netlog, address)
            /\ resplog' = Append(resplog, resp)
            /\ IF raise_for_status(resp.status) # NoErr
               THEN /\ Raise(Error("Exception", "Failed to fetch token overview for",
                                   address, resp.status))
                    /\ UNCHANGED overview
               ELSE /\ pc' = "returned"
                    /\ overview' = <<resp>>
                    /\ UNCHANGED err
       ELSE LET call == _call_api(address, resp)
            IN  /\ IF call.requested
                   THEN /\ netlog' = Append(netlog, address)
                        /\ resplog' = Append(resplog, resp)
                   ELSE UNCHANGED <<netlog, resplog>>
                /\ IF call.err # NoErr
                   THEN /\ Raise(call.err)
                        /\ UNCHANGED overview
                   ELSE /\ pc' = "returned"
                        /\ overview' = <<resp>>
                        /\ UNCHANGED err
    /\ UNCHANGED <<provider, op, token_addresses, address, token_pairs, i, prices,
                   swallowed, max_entry>>

\* --------------------------------------------------- find_largest_pool_with_sol
FindLargestPoolWithSol ==
    /\ pc = "idle"
    /\ \E pairs \in PairLists, addr \in ValidAddrs :
        /\ Enter("DexScreener", "find_largest_pool_with_sol")
        /\ token_pairs' = pairs
        /\ address' = addr
        /\ IF find_largest_pool_with_sol(pairs, addr).err # NoErr
           THEN /\ Raise(find_largest_pool_with_sol(pairs, addr).err)
                /\ UNCHANGED max_entry
           ELSE /\ pc' = "returned"
                /\ max_entry' = find_largest_pool_with_sol(pairs, addr).max_entry
                /\ UNCHANGED err
        /\ UNCHANGED <<token_addresses, i, prices, netlog, resplog, swallowed, overview>>

Next ==
    \/ BirdEyeFetchPrices
    \/ \E resp \in ResponseDomain : BirdEyeFetchPricesStep(resp)
    \/ BirdEyeFetchPricesReturn
    \/ DexFetchPrices
    \/ \E resp \in ResponseDomain : DexFetchPricesStep(resp)
    \/ DexFetchPricesReturn
    \/ BirdEyeFetchTokenOverview
    \/ DexFetchTokenOverview
    \/ \E resp \in ResponseDomain : FetchTokenOverviewRespond(resp)
    \/ FindLargestPoolWithSol

Spec ==
    Init /\ [][Next]_vars

\* ===================================================================== claims
\* The error kinds of the error taxonomy, as the exceptions the code raises.
InvalidAddressKind(e) ==
    \/ e.type = "InvalidSolanaAddress"
    \/ e.type = "ValueError" /\ e.msg = "Invalid Solana address"

NoAddressesProvidedKind(e) ==
    \/ e.type = "NoPositionsError"
    \/ e.type = "ValueError" /\ e.msg = "No tokens provided"

InvalidTokenKind(e) ==
    e.type = "InvalidTokens"

\* A fetch_prices call (of either provider) has begun.
InFetchPrices ==
    op = "fetch_prices"

AllValid(addrs) ==
    \A k \in 1..Len(addrs) : is_solana_address(addrs[k])

\* Positions of the responses received with a non-success status.
FailedAt ==
    {k \in 1..Len(resplog) : resplog[k].status # HTTP_OK}

FirstFailedAt ==
    CHOOSE k \in FailedAt : \A j \in FailedAt : k <= j

\* Positions of the 200 responses that lack the price or the liquidity datum.
LackingAt ==
    {k \in 1..Len(resplog) :
        /\ resplog[k].status = HTTP_OK
        /\ (resplog[k].price = Absent \/ resplog[k].liquidity = Absent)}

\* C1: for both providers, a fetch_prices call on a non-empty list of valid
\* addresses that returns a map returns one whose key set is exactly the set
\* of requested addresses.
C1_ReturnedMapCoversRequest ==
    (/\ InFetchPrices
     /\ pc = "returned"
     /\ token_addresses # <<>>
     /\ AllValid(token_addresses))
    => DOMAIN prices = Range(token_addresses)

\* C2: for both providers, in a fetch_prices call on valid addresses, once a
\* request has come back with a non-success status no further request is
\* issued and the call has failed with the error of that first failing
\* address; it neither continues the loop nor returns.
C2_FirstFailureAborts ==
    (/\ InFetchPrices
     /\ AllValid(token_addresses)
     /\ FailedAt # {})
    => /\ Len(netlog) = FirstFailedAt
       /\ pc = "raised"
       /\ err.addr = netlog[FirstFailedAt]
       /\ err.status = resplog[FirstFailedAt].status

\* C3: for both providers, a fetch_prices call on a list that holds an address
\* failing validation fails with the invalid-address error kind and issues no
\* request at all.
C3_InvalidAddressBeforeNetwork ==
    (/\ InFetchPrices
     /\ ~AllValid(token_addresses))
    => /\ pc = "raised"
       /\ InvalidAddressKind(err)
       /\ netlog = <<>>

\* C4: for both providers, fetch_prices on the empty list fails with the
\* no-addresses-provided error kind, issues no request and returns no map.
C4_EmptyListFails ==
    (/\ InFetchPrices
     /\ token_addresses = <<>>)
    => /\ pc = "raised"
       /\ NoAddressesProvidedKind(err)
       /\ netlog = <<>>
       /\ DOMAIN prices = {}

\* C4 witness: fetch_prices_dex([]) has raised.
C4_Witness ==
    /\ InFetchPrices
    /\ provider = "DexScreener"
    /\ token_addresses = <<>>
    /\ pc = "raised"

\* C5: for both providers, fetch_token_overview on an address failing
\* validation (the empty string included) fails with the invalid-address
\* error kind without a request; on a valid address validation raises nothing
\* and the one overview request is issued.
C5_OverviewValidation ==
    op = "fetch_token_overview"
    => IF is_solana_address(address)
       THEN pc = "request" \/ netlog = <<address>>
       ELSE /\ pc = "raised"
            /\ InvalidAddressKind(err)
            /\ netlog = <<>>

\* C6: for both providers, when a price request succeeds with status 200 but
\* the response lacks the price or the liquidity of the address, fetch_prices
\* fails with the invalid-token error naming that address; the address never
\* enters the map with a default value.
C6_MissingDataFails ==
    InFetchPrices
    => \A k \in LackingAt :
          /\ pc = "raised"
          /\ InvalidTokenKind(err)
          /\ err.addr = netlog[k]
          /\ netlog[k] \notin DOMAIN prices

\* A find_largest_pool_with_sol call has ended (returned or raised).
PoolDone ==
    op = "find_largest_pool_with_sol"

\* Positions of the qualifying pairs of token_pairs.
Qualifying ==
    {k \in 1..Len(token_pairs) :
        /\ token_pairs[k].base = <<address>>
        /\ token_pairs[k].quote = <<SOL_MINT>>}

\* liquidity.usd of the pair at position k as an exact decimal, a missing
\* field counting as zero.
LiquidityUsd(k) ==
    Get(token_pairs[k].liq, Num(0, 0))

\* Positions of the qualifying pairs of maximum liquidity.usd.
Largest ==
    {k \in Qualifying : \A j \in Qualifying : ~Greater(LiquidityUsd(j), LiquidityUsd(k))}

\* C7: when at least one pair qualifies, find_largest_pool_with_sol returns a
\* qualifying element of the input whose liquidity.usd is greater than or
\* equal to that of every qualifying pair.
C7_ReturnsLargestQualifying ==
    (PoolDone /\ Qualifying # {})
    => /\ pc = "returned"
       /\ max_entry \in Largest

\* C8: when several qualifying pairs share the maximum liquidity.usd,
\* find_largest_pool_with_sol returns the one at the smallest position.
C8_FirstOfTiedWins ==
    (PoolDone /\ Cardinality(Largest) >= 2)
    => /\ pc = "returned"
       /\ max_entry \in Largest
       /\ \A k \in Largest : max_entry <= k

\* C9: find_largest_pool_with_sol returns the empty entry, raising nothing,
\* whenever no pair qualifies, and returns it only then.
C9_NoMatchIffNoneQualifies ==
    PoolDone
    => IF Qualifying = {}
       THEN pc = "returned" /\ max_entry = 0
       ELSE ~(pc = "returned" /\ max_entry = 0)

====
